---- MODULE Spec2Model ----
(***************************************************************************)
(* Rigid-sphere physics world of the 3d-physicsengine repository:          *)
(* Vector3, PhysicsBody, Ball and PhysicsWorld.                            *)
(*                                                                         *)
(* Floats are modelled as fixed-point integers: a length, speed, mass or   *)
(* coefficient f is the integer f * Scale, a time t is t * TimeUnit ticks. *)
(* Products and quotients truncate toward zero, which keeps the sign       *)
(* symmetry of IEEE arithmetic ((-a)/b = -(a/b)).  The only non-finite     *)
(* values the code can produce, the NaN positions of a division by a zero  *)
(* combined inverse mass, are modelled by the flag posNaN of a body.       *)
(***************************************************************************)
EXTENDS Integers, Sequences, FiniteSets, TLC

\* ------------------------------------------------------------------ bounds
MaxOps == 4
\* Console::maxHistorySize and Console::maxOutputMessages: the constructor
\* sets them to 100 and 50; the console of the model is built with limits
\* small enough for both vectors to overflow
maxHistorySize == 2
maxOutputMessages == 3
\* the longest text typed into Console::currentInput
MaxInput == 1
\* console commands given to the game in one run
MaxCommands == 2

\* ------------------------------------------------------- number model
Scale == 1000
TimeUnit == 600

Abs(a) == IF a < 0 THEN -a ELSE a
Min(a, b) == IF a < b THEN a ELSE b
Max(a, b) == IF a > b THEN a ELSE b

\* float division, truncating toward zero
Div(a, b) == IF (a < 0) = (b < 0) THEN Abs(a) \div Abs(b) ELSE -(Abs(a) \div Abs(b))
\* float * float and float / float on fixed-point operands
Mul(a, b) == Div(a * b, Scale)
Quot(a, b) == Div(a * Scale, b)
\* float * deltaTime
MulT(a, dt) == Div(a * dt, TimeUnit)

\* largest r in t[2]..t[3] with r * r <= t[1], by bisection
SqrtSearch[t \in Nat \X Nat \X Nat] ==
    IF t[2] >= t[3] THEN t[2]
    ELSE IF ((t[2] + t[3] + 1) \div 2) * ((t[2] + t[3] + 1) \div 2) <= t[1]
         THEN SqrtSearch[<<t[1], (t[2] + t[3] + 1) \div 2, t[3]>>]
         ELSE SqrtSearch[<<t[1], t[2], ((t[2] + t[3] + 1) \div 2) - 1>>]

\* std::sqrt on a fixed-point square (x*x is at scale Scale^2)
Sqrt(n) == SqrtSearch[<<n, 0, 46340>>]

\* ------------------------------------------------------------- Vector3
Vector3(x, y, z) == [x |-> x, y |-> y, z |-> z]
ZERO == Vector3(0, 0, 0)
VAdd(a, b) == Vector3(a.x + b.x, a.y + b.y, a.z + b.z)
VSub(a, b) == Vector3(a.x - b.x, a.y - b.y, a.z - b.z)
VMul(a, s) == Vector3(Mul(a.x, s), Mul(a.y, s), Mul(a.z, s))
VMulT(a, dt) == Vector3(MulT(a.x, dt), MulT(a.y, dt), MulT(a.z, dt))
VDiv(a, s) == Vector3(Quot(a.x, s), Quot(a.y, s), Quot(a.z, s))
dot(a, b) == Mul(a.x, b.x) + Mul(a.y, b.y) + Mul(a.z, b.z)
magnitude(a) == Sqrt(a.x * a.x + a.y * a.y + a.z * a.z)
normalized(a) ==
    LET mag == magnitude(a)
    IN IF mag * 10000 > Scale THEN VDiv(a, mag) ELSE Vector3(0, 0, 0)

\* PhysicsWorld::gravity, declared here because a variant of
\* PhysicsBody::update below reads it
VARIABLE gravity

\* ---------------------------------------------------- PhysicsBody, Ball
\* PhysicsBody(pos, m, r); posNaN is TRUE once position holds NaN components
PhysicsBody(pos, m, r) ==
    [kind |-> "PhysicsBody", position |-> pos, velocity |-> ZERO,
     acceleration |-> ZERO, force |-> ZERO, mass |-> m, restitution |-> 700,
     friction |-> 500, radius |-> r, isStatic |-> FALSE, isActive |-> TRUE,
     isHeld |-> FALSE, posNaN |-> FALSE]

\* Ball(pos) with isHeld(true)
Ball_Held(pos) ==
    [PhysicsBody(pos, 500, 250) EXCEPT !.kind = "Ball", !.restitution = 800,
                                       !.friction = 300, !.isHeld = TRUE]

\* Ball(pos) : PhysicsBody(pos, 0.5f, 0.25f), isHeld(false)
Ball(pos) ==
    [PhysicsBody(pos, 500, 250) EXCEPT !.kind = "Ball", !.restitution = 800,
                                       !.friction = 300]

spinDamping == 950

applyForce(b, f) ==
    IF ~b.isStatic THEN [b EXCEPT !.force = VAdd(b.force, f)] ELSE b

applyImpulse(b, impulse) ==
    IF ~b.isStatic THEN [b EXCEPT !.velocity = VAdd(b.velocity, VDiv(impulse, b.mass))]
    ELSE b

\* getInverseMass with the test of isStatic inverted
getInverseMass_Inverted(b) == IF b.isStatic THEN Quot(Scale, b.mass) ELSE 0

getInverseMass(b) == IF b.isStatic THEN 0 ELSE Quot(Scale, b.mass)

setStatic(b, static_state) ==
    IF static_state
    THEN [b EXCEPT !.isStatic = TRUE, !.velocity = ZERO, !.acceleration = ZERO,
                   !.force = ZERO]
    ELSE [b EXCEPT !.isStatic = FALSE]

setHeld(b, held) ==
    IF held
    THEN [b EXCEPT !.isHeld = TRUE, !.velocity = ZERO, !.acceleration = ZERO,
                   !.force = ZERO]
    ELSE [b EXCEPT !.isHeld = FALSE]

\* throwBall without the upward component added to velocity.y
throwBall_NoLift(b, throwVelocity) ==
    IF b.isHeld
    THEN [b EXCEPT !.isHeld = FALSE, !.velocity = throwVelocity]
    ELSE b

throwBall(b, throwVelocity) ==
    IF b.isHeld
    THEN [b EXCEPT !.isHeld = FALSE,
                   !.velocity = Vector3(throwVelocity.x, throwVelocity.y + 2000,
                                        throwVelocity.z)]
    ELSE b

\* PhysicsBody::update adding the gravity of the world instead of its constant
PhysicsBodyUpdate_WorldGravity(b, deltaTime) ==
    IF ~b.isActive \/ b.isStatic THEN b
    ELSE LET acc == VAdd(VDiv(b.force, b.mass), gravity)
             vel == VMul(VAdd(b.velocity, VMulT(acc, deltaTime)), 999)
         IN [b EXCEPT !.acceleration = acc, !.velocity = vel,
                      !.position = VAdd(b.position, VMulT(vel, deltaTime)),
                      !.force = ZERO]

\* PhysicsBody::update with position advanced by the velocity before the step
PhysicsBodyUpdate_PositionFirst(b, deltaTime) ==
    IF ~b.isActive \/ b.isStatic THEN b
    ELSE LET acc == VAdd(VDiv(b.force, b.mass), Vector3(0, -9810, 0))
             vel == VMul(VAdd(b.velocity, VMulT(acc, deltaTime)), 999)
         IN [b EXCEPT !.acceleration = acc, !.velocity = vel,
                      !.position = VAdd(b.position, VMulT(b.velocity, deltaTime)),
                      !.force = ZERO]

\* PhysicsBody::update without the reset of force
PhysicsBodyUpdate_KeepsForce(b, deltaTime) ==
    IF ~b.isActive \/ b.isStatic THEN b
    ELSE LET acc == VAdd(VDiv(b.force, b.mass), Vector3(0, -9810, 0))
             vel == VMul(VAdd(b.velocity, VMulT(acc, deltaTime)), 999)
         IN [b EXCEPT !.acceleration = acc, !.velocity = vel,
                      !.position = VAdd(b.position, VMulT(vel, deltaTime))]

\* PhysicsBody::update: semi-implicit Euler step with gravity and drag
PhysicsBodyUpdate(b, deltaTime) ==
    IF ~b.isActive \/ b.isStatic THEN b
    ELSE LET acc == VAdd(VDiv(b.force, b.mass), Vector3(0, -9810, 0))
             vel == VMul(VAdd(b.velocity, VMulT(acc, deltaTime)), 999)
         IN [b EXCEPT !.acceleration = acc, !.velocity = vel,
                      !.position = VAdd(b.position, VMulT(vel, deltaTime)),
                      !.force = ZERO]

\* Ball::update of a ball that is not held, up to the floor test:
\* PhysicsBody::update(deltaTime); velocity *= spinDamping
BallDamped(b, deltaTime) ==
    LET p == PhysicsBodyUpdate(b, deltaTime)
    IN [p EXCEPT !.velocity = VMul(p.velocity, spinDamping)]

\* Ball::update with the reflected velocity.y divided by restitution
BallUpdate_DividesByRestitution(b, deltaTime) ==
    IF b.isHeld THEN b
    ELSE LET d == BallDamped(b, deltaTime)
         IN IF ~d.posNaN /\ d.position.y < d.radius
            THEN IF d.velocity.y < 0
                 THEN [d EXCEPT !.position.y = d.radius,
                                !.velocity.y = Quot(-d.velocity.y, d.restitution)]
                 ELSE [d EXCEPT !.position.y = d.radius]
            ELSE d

\* Ball::update with the floor clamp but without the reflection of velocity.y
BallUpdate_NoReflect(b, deltaTime) ==
    IF b.isHeld THEN b
    ELSE LET d == BallDamped(b, deltaTime)
         IN IF ~d.posNaN /\ d.position.y < d.radius
            THEN [d EXCEPT !.position.y = d.radius]
            ELSE d

\* Ball::update: held balls are frozen; spin damping and the floor clamp
BallUpdate(b, deltaTime) ==
    IF b.isHeld THEN b
    ELSE LET d == BallDamped(b, deltaTime)
         IN IF ~d.posNaN /\ d.position.y < d.radius
            THEN IF d.velocity.y < 0
                 THEN [d EXCEPT !.position.y = d.radius,
                                !.velocity.y = Mul(-d.velocity.y, d.restitution)]
                 ELSE [d EXCEPT !.position.y = d.radius]
            ELSE d

\* whether Ball::update takes its reflecting branch (position.y < radius and
\* velocity.y < 0), and the velocity.y it reflects
Landing(b, deltaTime) ==
    LET hit == /\ b.kind = "Ball" /\ ~b.isHeld /\ ~b.posNaN
               /\ BallDamped(b, deltaTime).position.y < b.radius
               /\ BallDamped(b, deltaTime).velocity.y < 0
    IN [hit |-> hit, vy |-> IF hit THEN BallDamped(b, deltaTime).velocity.y ELSE 0,
        resolved |-> FALSE]

\* virtual dispatch of body->update(currentStep)
update(b, deltaTime) ==
    IF b.kind = "Ball" THEN BallUpdate(b, deltaTime) ELSE PhysicsBodyUpdate(b, deltaTime)

\* isCollidingWith without the test of the isActive flags
isCollidingWith_IgnoresActive(a, b) ==
    ~a.posNaN /\ ~b.posNaN
    /\ magnitude(VSub(a.position, b.position)) < a.radius + b.radius

isCollidingWith(a, b) ==
    IF ~a.isActive \/ ~b.isActive THEN FALSE
    ELSE ~a.posNaN /\ ~b.posNaN
         /\ magnitude(VSub(a.position, b.position)) < a.radius + b.radius

\* ------------------------------------------------------- PhysicsWorld
timeStep == TimeUnit \div 60
maxSubsteps == 4
DefaultBounds == <<-15000, 15000, 0, 10000, -15000, 15000>>

\* locals of PhysicsWorld::resolveCollision(bodyA, bodyB)
normalOf(a, b) == normalized(VSub(a.position, b.position))
velocityAlongNormal(a, b) == dot(VSub(a.velocity, b.velocity), normalOf(a, b))
invMassSum(a, b) == getInverseMass(a) + getInverseMass(b)
penetrationDepth(a, b) ==
    (a.radius + b.radius) - magnitude(VSub(a.position, b.position))

\* Vector3 impulse = normal * impulseScalar
impulseOf(a, b) ==
    VMul(normalOf(a, b),
         Quot(Mul(-(Scale + Min(a.restitution, b.restitution)), velocityAlongNormal(a, b)),
              invMassSum(a, b)))

\* impulseOnB with the sign of the second impulse lost
impulseOnB_SameSign(a, b) == VMul(impulseOf(a, b), getInverseMass(b))

\* the arguments of the two applyImpulse calls
impulseOnA(a, b) == VMul(impulseOf(a, b), getInverseMass(a))
impulseOnB(a, b) == VMul(impulseOf(a, b), -getInverseMass(b))

\* Vector3 correction = normal * (0.8 * max(depth - 0.01, 0) / (invA + invB))
correctionOf(a, b) ==
    VMul(normalOf(a, b),
         Quot(Mul(800, Max(penetrationDepth(a, b) - 10, 0)), invMassSum(a, b)))

\* resolveCollision after the separating test.  randomOffset is the vector the
\* three rand() calls produce.  With a zero combined inverse mass (both bodies
\* static) the two divisions are x/0: applyImpulse ignores the non-finite
\* impulse of a static body, and position += (normal * (c/0)) * 0 stores NaN
\* in every component of both positions.
resolveApproaching(a, b, randomOffset) ==
    LET a1 == IF invMassSum(a, b) = 0 THEN a ELSE applyImpulse(a, impulseOnA(a, b))
        b1 == IF invMassSum(a, b) = 0 THEN b ELSE applyImpulse(b, impulseOnB(a, b))
        a2 == IF penetrationDepth(a, b) > 0
              THEN IF invMassSum(a, b) = 0 THEN [a1 EXCEPT !.posNaN = TRUE]
                   ELSE [a1 EXCEPT !.position =
                            VAdd(a1.position,
                                 VMul(correctionOf(a, b), getInverseMass(a)))]
              ELSE a1
        b2 == IF penetrationDepth(a, b) > 0
              THEN IF invMassSum(a, b) = 0 THEN [b1 EXCEPT !.posNaN = TRUE]
                   ELSE [b1 EXCEPT !.position =
                            VSub(b1.position,
                                 VMul(correctionOf(a, b), getInverseMass(b)))]
              ELSE b1
    IN IF a.kind = "Ball" /\ b.kind = "Ball"
       THEN <<[a2 EXCEPT !.velocity = VAdd(a2.velocity, randomOffset)],
              [b2 EXCEPT !.velocity = VSub(b2.velocity, randomOffset)]>>
       ELSE <<a2, b2>>

\* resolveCollision without the test for separating bodies
resolveCollision_NoSeparatingTest(a, b, randomOffset) ==
    resolveApproaching(a, b, randomOffset)

\* PhysicsWorld::resolveCollision(bodyA, bodyB)
resolveCollision(a, b, randomOffset) ==
    IF velocityAlongNormal(a, b) > 0 THEN <<a, b>>
    ELSE resolveApproaching(a, b, randomOffset)

\* AxisBoundary without the test of the max face
AxisBoundary_MinFaceOnly(p, v, radius, lo, hi, restitution) ==
    IF p - radius < lo
    THEN IF v < 0 THEN [p |-> lo + radius, v |-> Mul(-v, restitution), hit |-> TRUE]
                  ELSE [p |-> lo + radius, v |-> v, hit |-> FALSE]
    ELSE [p |-> p, v |-> v, hit |-> FALSE]

\* AxisBoundary reflecting at the min face without the test of the sign of v
AxisBoundary_NoSignTest(p, v, radius, lo, hi, restitution) ==
    IF p - radius < lo
    THEN [p |-> lo + radius, v |-> Mul(-v, restitution), hit |-> TRUE]
    ELSE IF p + radius > hi
         THEN IF v > 0 THEN [p |-> hi - radius, v |-> Mul(-v, restitution), hit |-> TRUE]
                       ELSE [p |-> hi - radius, v |-> v, hit |-> FALSE]
         ELSE [p |-> p, v |-> v, hit |-> FALSE]

\* one axis of handleWorldBoundaries: [p, v, hit] after the min/max face test
AxisBoundary(p, v, radius, lo, hi, restitution) ==
    IF p - radius < lo
    THEN IF v < 0 THEN [p |-> lo + radius, v |-> Mul(-v, restitution), hit |-> TRUE]
                  ELSE [p |-> lo + radius, v |-> v, hit |-> FALSE]
    ELSE IF p + radius > hi
         THEN IF v > 0 THEN [p |-> hi - radius, v |-> Mul(-v, restitution), hit |-> TRUE]
                       ELSE [p |-> hi - radius, v |-> v, hit |-> FALSE]
         ELSE [p |-> p, v |-> v, hit |-> FALSE]

\* body of the loop of handleWorldBoundaries; every comparison on a NaN
\* position is false, so such a body is left as it is
BoundaryBody(b, wb) ==
    IF b.isStatic \/ b.posNaN THEN b
    ELSE LET ax == AxisBoundary(b.position.x, b.velocity.x, b.radius, wb[1], wb[2],
                                b.restitution)
             ay == AxisBoundary(b.position.y, b.velocity.y, b.radius, wb[3], wb[4],
                                b.restitution)
             az == AxisBoundary(b.position.z, b.velocity.z, b.radius, wb[5], wb[6],
                                b.restitution)
             collided == ax.hit \/ ay.hit \/ az.hit
             ground == ay.p <= wb[3] + b.radius + 100 /\ collided
         IN [b EXCEPT !.position = Vector3(ax.p, ay.p, az.p),
                      !.velocity =
                          Vector3(IF ground THEN Mul(ax.v, Scale - b.friction) ELSE ax.v,
                                  ay.v,
                                  IF ground THEN Mul(az.v, Scale - b.friction) ELSE az.v)]

handleWorldBoundaries(bs, wb) == [i \in 1..Len(bs) |-> BoundaryBody(bs[i], wb)]

\* ------------------------------------------------------- Console: texts
\* A std::string is the sequence of its pieces: a text that is typed or
\* passed by a caller has one piece for each character, a literal of the
\* source is one piece.
Digits == <<"0", "1", "2", "3", "4", "5", "6", "7", "8", "9">>
Whitespace == {" "}

\* std::to_string of a non-negative int
RECURSIVE to_string(_)
to_string(n) ==
    IF n < 10 THEN <<Digits[n + 1]>>
    ELSE to_string(n \div 10) \o <<Digits[(n % 10) + 1]>>

\* std::stoi(str): an optional sign, then the longest run of digits; what
\* follows the digits is ignored; no digit throws std::invalid_argument, a
\* value beyond int throws std::out_of_range.  [thrown, value]
IsDigit(c) == \E d \in 1..10 : Digits[d] = c
DigitValue(c) == (CHOOSE d \in 1..10 : Digits[d] = c) - 1

RECURSIVE stoiDigits(_, _, _)
stoiDigits(str, value, seen) ==
    IF str = <<>> \/ ~IsDigit(Head(str))
    THEN [thrown |-> ~seen, value |-> value]
    ELSE IF value > (2147483647 - DigitValue(Head(str))) \div 10
         THEN [thrown |-> TRUE, value |-> 0]
         ELSE stoiDigits(Tail(str), value * 10 + DigitValue(Head(str)), TRUE)

stoi(str) ==
    IF str # <<>> /\ Head(str) = "-"
    THEN LET r == stoiDigits(Tail(str), 0, FALSE)
         IN [thrown |-> r.thrown, value |-> -r.value]
    ELSE IF str # <<>> /\ Head(str) = "+" THEN stoiDigits(Tail(str), 0, FALSE)
         ELSE stoiDigits(str, 0, FALSE)

\* Console::parseCommand: the whitespace-separated tokens of the line
RECURSIVE parseCommandFrom(_, _, _)
parseCommandFrom(line, token, tokens) ==
    IF line = <<>>
    THEN IF token = <<>> THEN tokens ELSE Append(tokens, token)
    ELSE IF Head(line) \in Whitespace
         THEN parseCommandFrom(Tail(line), <<>>,
                               IF token = <<>> THEN tokens ELSE Append(tokens, token))
         ELSE parseCommandFrom(Tail(line), Append(token, Head(line)), tokens)

parseCommand(commandLine) == parseCommandFrom(commandLine, <<>>, <<>>)

\* Console::addOutput on the vector out
addOutput(out, message) ==
    IF Len(out) + 1 > maxOutputMessages THEN Tail(Append(out, message))
    ELSE Append(out, message)

\* addOutput for each message of a list, in order
RECURSIVE addOutputs(_, _)
addOutputs(out, messages) ==
    IF messages = <<>> THEN out
    ELSE addOutputs(addOutput(out, Head(messages)), Tail(messages))

\* the names the constructor of Console and Game::setupConsoleCommands register
help == <<"h", "e", "l", "p">>
clearOutputName == <<"c", "l", "e", "a", "r">>
historyName == <<"h", "i", "s", "t", "o", "r", "y">>
summon == <<"s", "u", "m", "m", "o", "n">>
clear_balls == <<"c", "l", "e", "a", "r", "_", "b", "a", "l", "l", "s">>
physics_info == <<"p", "h", "y", "s", "i", "c", "s", "_", "i", "n", "f", "o">>
BuiltinCommands == {help, clearOutputName, historyName}
GameCommands == {summon, clear_balls, physics_info}

\* Console::showHelp
showHelp(out) ==
    addOutputs(out,
        <<<<"Available commands:">>,
          <<"  summon <number> - Summon the specified number of balls">>,
          <<"  clear - Clear console output">>,
          <<"  help - Show this help message">>,
          <<"  history - Show command history">>,
          <<"">>,
          <<"Controls:">>,
          <<"  WASD - Move camera">>,
          <<"  Mouse - Look around">>,
          <<"  E - Pick up/drop balls">>,
          <<"  F - Throw held ball">>,
          <<"  ~ - Toggle console">>,
          <<"  ESC - Exit game">>>>)

\* Console::showHistory
showHistory(out, h) ==
    IF h = <<>> THEN addOutput(out, <<"No command history">>)
    ELSE addOutputs(addOutput(out, <<"Command history:">>),
                    [i \in 1..Len(h) |-> <<"  ">> \o to_string(i) \o <<": ">> \o h[i]])

\* Console::clearOutput
clearOutput(out) == addOutput(<<>>, <<"Console cleared">>)

\* recorded without the erasure of the oldest line
recorded_NoLimit(h, commandLine) ==
    IF h = <<>> \/ h[Len(h)] # commandLine THEN Append(h, commandLine) ELSE h

\* the history after executeCommand(commandLine) has recorded the line
recorded(h, commandLine) ==
    IF h = <<>> \/ h[Len(h)] # commandLine
    THEN IF Len(h) + 1 > maxHistorySize THEN Tail(Append(h, commandLine))
         ELSE Append(h, commandLine)
    ELSE h

\* ------------------------------------------------------ input domains
Positions ==
    {Vector3(0, 2000, 0), Vector3(300, 2000, 0), Vector3(0, 100, 0),
     Vector3(16000, 2000, -15900)}
BodyPositions == {Vector3(600, 2000, 0)}
\* bodies a caller builds and hands to addBody, made static or not
NewBodies ==
    {PhysicsBody(p, 1000, 500) : p \in BodyPositions}
        \cup {setStatic(PhysicsBody(p, 1000, 500), TRUE) : p \in BodyPositions}
Impulses == {Vector3(500, 0, 0)}
Forces == {Vector3(0, 0, 3000)}
ThrowVelocities == {Vector3(0, 0, -15000)}
RandomOffsets == {Vector3(50, -50, 0), Vector3(-50, 0, 50)}
NarrowBounds == <<-200, 200, 0, 10000, -15000, 15000>>
BoundsChoices == {DefaultBounds, NarrowBounds}
DeltaTimes == {-10, 0, 10, 15, 50}

\* ------------------------------------------------------------- state
VARIABLES
    bodies,          \* PhysicsWorld::bodies, in insertion order
    worldBounds,     \* PhysicsWorld::worldBounds[6]
    pc,              \* position inside PhysicsWorld::update
    deltaTime,       \* argument of the running update
    remainingTime,   \* local of update
    substeps,        \* local of update
    currentStep,     \* local of update
    ci, cj,          \* loop indices i, j of handleCollisions (1-based)
    pre,             \* bodies as they were when the running update was called
    simulated,       \* sum of the steps the running update has integrated
    outcome,         \* what handleCollisions did with the pair it tested last
    impact,          \* per body: what the running substep did to it so far
    erased,          \* the last removeBody: its handle, the body count before it
    flight,          \* heights a dropped ball reached, frame by frame
    keyStates,           \* InputHandler::keyStates, a map from keys to bool
    previousKeyStates,   \* InputHandler::previousKeyStates
    keysPressed,         \* InputHandler::keysPressed
    keysReleased,        \* InputHandler::keysReleased
    history,             \* Console::history
    currentInput,        \* Console::currentInput
    isVisible,           \* Console::isVisible
    isActive,            \* Console::isActive
    historyIndex,        \* Console::historyIndex
    commands,            \* Console::commands, the names registered
    outputMessages,      \* Console::outputMessages
    heldBall,            \* Game::heldBall: the place of the ball in bodies, 0 for nullptr
    isPaused,            \* Game::isPaused
    ops              \* number of calls made on the world and its bodies

\* the state outside the body collection, the room and the running update
inputVars == <<keyStates, previousKeyStates, keysPressed, keysReleased>>
consoleVars == <<history, currentInput, isVisible, isActive, historyIndex, commands,
                 outputMessages>>
gameVars == <<heldBall, isPaused>>
others == <<gravity, inputVars, consoleVars, gameVars>>

vars == <<bodies, worldBounds, pc, deltaTime, remainingTime, substeps, currentStep,
          ci, cj, pre, simulated, outcome, impact, erased, flight, ops, others>>

locals == <<deltaTime, remainingTime, substeps, currentStep, ci, cj, pre, simulated,
            outcome, impact>>

NoPair == [i |-> 0, j |-> 0, what |-> "none"]
NotErased == [h |-> 0, n |-> 0]
NoFlight == [apex |-> 0, last |-> 0, prev |-> 0, n |-> 0, dt |-> 0]

\* the members of PhysicsWorld and its collaborators that no body reads,
\* as their constructors leave them
OthersInit ==
    /\ gravity = Vector3(0, -9810, 0)
    /\ keyStates = <<>> /\ previousKeyStates = <<>>
    /\ keysPressed = {} /\ keysReleased = {}
    /\ history = <<>> /\ currentInput = <<>>
    /\ isVisible = FALSE /\ isActive = FALSE
    /\ historyIndex = -1
    /\ commands = BuiltinCommands
    /\ outputMessages = addOutputs(<<>>, <<<<"Physics Engine Console">>,
                                          <<"Type 'help' for available commands">>,
                                          <<"Press ~ to toggle console">>>>)
    /\ heldBall = 0 /\ isPaused = FALSE

Init ==
    /\ bodies = <<>>
    /\ worldBounds = DefaultBounds
    /\ pc = "idle"
    /\ deltaTime = 0 /\ remainingTime = 0 /\ substeps = 0 /\ currentStep = 0
    /\ ci = 0 /\ cj = 0
    /\ pre = <<>>
    /\ simulated = 0
    /\ outcome = NoPair
    /\ impact = <<>>
    /\ erased = NotErased
    /\ flight = NoFlight
    /\ ops = 0
    /\ OthersInit

\* ------------------------------------------- commands between updates
createBall(position) ==
    /\ pc = "idle" /\ ops < MaxOps
    /\ bodies' = Append(bodies, Ball(position))
    /\ ops' = ops + 1
    /\ UNCHANGED <<worldBounds, pc, locals, erased, flight, others>>

addBody(body) ==
    /\ pc = "idle" /\ ops < MaxOps
    /\ bodies' = Append(bodies, body)
    /\ ops' = ops + 1
    /\ UNCHANGED <<worldBounds, pc, locals, erased, flight, others>>

Command(i, b) ==
    /\ pc = "idle" /\ ops < MaxOps
    /\ bodies' = [bodies EXCEPT ![i] = b]
    /\ ops' = ops + 1
    /\ UNCHANGED <<worldBounds, pc, locals, erased, flight, others>>

SetStatic(i, s) == Command(i, setStatic(bodies[i], s))
SetActive(i, a) == Command(i, [bodies[i] EXCEPT !.isActive = a])
SetHeld(i, h) == bodies[i].kind = "Ball" /\ Command(i, setHeld(bodies[i], h))
ThrowBall(i, v) == bodies[i].kind = "Ball" /\ Command(i, throwBall(bodies[i], v))
ApplyForce(i, f) == Command(i, applyForce(bodies[i], f))
ApplyImpulse(i, j) == Command(i, applyImpulse(bodies[i], j))

setWorldBounds(wb) ==
    /\ pc = "idle" /\ ops < MaxOps
    /\ worldBounds' = wb
    /\ ops' = ops + 1
    /\ UNCHANGED <<bodies, pc, locals, erased, flight, others>>

\* ------------------------------------------------ PhysicsWorld::update
\* the loop test without the cap on the number of substeps
LoopPc_NoCap(remaining, n) == IF remaining > 0 THEN "integrate" ELSE "done"

\* the loop test of update
LoopPc(remaining, n) == IF remaining > 0 /\ n < maxSubsteps THEN "integrate" ELSE "done"

\* update(deltaTime) is called: locals initialised, loop condition tested
UpdateCall(dt) ==
    /\ pc = "idle" /\ ops < MaxOps
    /\ deltaTime' = dt /\ remainingTime' = dt /\ substeps' = 0
    /\ pre' = bodies /\ simulated' = 0
    /\ ops' = ops + 1
    /\ pc' = LoopPc(dt, 0)
    /\ UNCHANGED <<bodies, worldBounds, currentStep, ci, cj, outcome, impact, erased,
                   flight, others>>

\* Integrate with handleWorldBoundaries called before handleCollisions
Integrate_BoundariesFirst ==
    /\ pc = "integrate"
    /\ currentStep' = Min(remainingTime, timeStep)
    /\ bodies' = handleWorldBoundaries(
                      [i \in 1..Len(bodies) |-> update(bodies[i], currentStep')],
                      worldBounds)
    /\ impact' = [i \in 1..Len(bodies) |-> Landing(bodies[i], currentStep')]
    /\ simulated' = simulated + currentStep'
    /\ ci' = 1 /\ cj' = 2
    /\ pc' = IF Len(bodies) >= 2 THEN "collide" ELSE "boundaries"
    /\ UNCHANGED <<worldBounds, deltaTime, remainingTime, substeps, pre, outcome,
                   erased, flight, ops, others>>

\* currentStep = min(remainingTime, timeStep); for (body) body->update(currentStep)
Integrate ==
    /\ pc = "integrate"
    /\ currentStep' = Min(remainingTime, timeStep)
    /\ bodies' = [i \in 1..Len(bodies) |-> update(bodies[i], currentStep')]
    /\ impact' = [i \in 1..Len(bodies) |-> Landing(bodies[i], currentStep')]
    /\ simulated' = simulated + currentStep'
    /\ ci' = 1 /\ cj' = 2
    /\ pc' = IF Len(bodies) >= 2 THEN "collide" ELSE "boundaries"
    /\ UNCHANGED <<worldBounds, deltaTime, remainingTime, substeps, pre, outcome,
                   erased, flight, ops, others>>

\* one iteration (i, j) of the nested loops of handleCollisions
CollidePair ==
    /\ pc = "collide"
    /\ \E randomOffset \in RandomOffsets :
          bodies' = IF isCollidingWith(bodies[ci], bodies[cj])
                    THEN LET r == resolveCollision(bodies[ci], bodies[cj], randomOffset)
                         IN [bodies EXCEPT ![ci] = r[1], ![cj] = r[2]]
                    ELSE bodies
    /\ outcome' = [i |-> ci, j |-> cj,
                   what |-> IF ~isCollidingWith(bodies[ci], bodies[cj]) THEN "apart"
                            ELSE IF velocityAlongNormal(bodies[ci], bodies[cj]) > 0
                                 THEN "separating" ELSE "resolved"]
    /\ impact' = IF isCollidingWith(bodies[ci], bodies[cj])
                     /\ velocityAlongNormal(bodies[ci], bodies[cj]) <= 0
                  THEN [impact EXCEPT ![ci].resolved = TRUE, ![cj].resolved = TRUE]
                  ELSE impact
    /\ IF cj < Len(bodies) THEN ci' = ci /\ cj' = cj + 1 /\ pc' = pc
       ELSE IF ci + 1 < Len(bodies) THEN ci' = ci + 1 /\ cj' = ci + 2 /\ pc' = pc
       ELSE ci' = 0 /\ cj' = 0 /\ pc' = "boundaries"
    /\ UNCHANGED <<worldBounds, deltaTime, remainingTime, substeps, currentStep, pre,
                   simulated, erased, flight, ops, others>>

\* handleWorldBoundaries(); remainingTime -= currentStep; substeps++; loop test
Boundaries ==
    /\ pc = "boundaries"
    /\ bodies' = handleWorldBoundaries(bodies, worldBounds)
    /\ remainingTime' = remainingTime - currentStep
    /\ substeps' = substeps + 1
    /\ pc' = LoopPc(remainingTime', substeps')
    /\ ci' = 0 /\ cj' = 0
    /\ outcome' = NoPair
    /\ UNCHANGED <<worldBounds, deltaTime, currentStep, pre, simulated, impact, erased,
                   flight, ops, others>>

\* update returns to its caller
UpdateReturn ==
    /\ pc = "done"
    /\ pc' = "idle"
    /\ deltaTime' = 0 /\ remainingTime' = 0 /\ substeps' = 0 /\ currentStep' = 0
    /\ ci' = 0 /\ cj' = 0 /\ pre' = <<>> /\ simulated' = 0 /\ outcome' = NoPair
    /\ impact' = <<>>
    /\ UNCHANGED <<bodies, worldBounds, erased, flight, ops, others>>

Next ==
    \/ \E p \in Positions : createBall(p)
    \/ \E body \in NewBodies : addBody(body)
    \/ \E i \in 1..Len(bodies), s \in BOOLEAN : SetStatic(i, s)
    \/ \E i \in 1..Len(bodies) : SetActive(i, FALSE)
    \/ \E i \in 1..Len(bodies), h \in BOOLEAN : SetHeld(i, h)
    \/ \E i \in 1..Len(bodies), v \in ThrowVelocities : ThrowBall(i, v)
    \/ \E i \in 1..Len(bodies), f \in Forces : ApplyForce(i, f)
    \/ \E i \in 1..Len(bodies), j \in Impulses : ApplyImpulse(i, j)
    \/ \E wb \in BoundsChoices : setWorldBounds(wb)
    \/ \E dt \in DeltaTimes : UpdateCall(dt)
    \/ Integrate
    \/ CollidePair
    \/ Boundaries
    \/ UpdateReturn

Spec == Init /\ [][Next]_vars

\* update moves on: while it has not returned, UpdateStep is enabled, and an
\* UpdateStep is a step that changes the position <<pc, ci, cj, substeps>>
Running ==
    /\ pc # "idle"
    /\ pc' \in {"idle", "integrate", "collide", "boundaries", "done"}
    /\ ci' \in 0..Len(bodies) /\ cj' \in 0..Len(bodies) + 2
    /\ substeps' \in 0..maxSubsteps
    /\ <<pc, ci, cj, substeps>>' # <<pc, ci, cj, substeps>>

\* update runs to completion once called: the single-threaded caller waits
FairSpec == Spec /\ WF_<<pc, ci, cj, substeps>>(Running)

\* ------------------------------------------- balls at the floor of a room
\* a ball under the floor level with a second one resting on it, in rooms
\* whose floor is above, at or below y = 0, with restitutions 0, 0.8 and 1
FloorPositions == {Vector3(0, 100, 0), Vector3(0, 500, 0)}
FloorBounds ==
    {<<-15000, 15000, 200, 10000, -15000, 15000>>,
     <<-15000, 15000, -200, 10000, -15000, 15000>>}
Restitutions == {0, 1000}
FloorDeltaTimes == {10, 20}

\* a caller writes the public member restitution of a body
SetRestitution(i, e) == Command(i, [bodies[i] EXCEPT !.restitution = e])

FloorNext ==
    \/ \E p \in FloorPositions : createBall(p)
    \/ \E wb \in FloorBounds : setWorldBounds(wb)
    \/ \E i \in 1..Len(bodies), e \in Restitutions : SetRestitution(i, e)
    \/ \E dt \in FloorDeltaTimes : UpdateCall(dt)
    \/ Integrate
    \/ CollidePair
    \/ Boundaries
    \/ UpdateReturn

FloorSpec == Init /\ [][FloorNext]_vars

\* ------------------------------------------- the gravity of the world
\* A world is filled, forces are applied, setGravity is called with any
\* vector and the world is updated.
Gravities == {Vector3(0, 0, 0), Vector3(0, 9810, 0)}

setGravity(g) ==
    /\ pc = "idle" /\ ops < MaxOps
    /\ gravity' = g
    /\ ops' = ops + 1
    /\ UNCHANGED <<bodies, worldBounds, pc, locals, erased, flight, inputVars,
                   consoleVars, gameVars>>

getGravity == gravity

GravityNext ==
    \/ \E p \in Positions : createBall(p)
    \/ \E body \in NewBodies : addBody(body)
    \/ \E i \in 1..Len(bodies), f \in Forces : ApplyForce(i, f)
    \/ \E g \in Gravities : setGravity(g)
    \/ \E dt \in DeltaTimes : UpdateCall(dt)
    \/ Integrate
    \/ CollidePair
    \/ Boundaries
    \/ UpdateReturn

GravitySpec == Init /\ [][GravityNext]_vars

\* ------------------------------------------------------ InputHandler
\* The window delivers key events between two frames; every frame calls
\* update once.  A std::map is a function on the keys it holds.
Keys == {"E", "F", "W"}
KeyActions == {"GLFW_PRESS", "GLFW_RELEASE", "GLFW_REPEAT"}

\* std::map::operator[] for writing: the entry is created if it is missing
MapPut(m, key, value) ==
    [k \in (DOMAIN m) \cup {key} |-> IF k = key THEN value ELSE m[k]]

\* std::map::operator[] for reading a bool: a missing entry reads false
MapGet(m, key) == IF key \in DOMAIN m THEN m[key] ELSE FALSE

isKeyPressed(key) == key \in DOMAIN keyStates /\ keyStates[key]
wasKeyPressed(key) == key \in keysPressed
wasKeyReleased(key) == key \in keysReleased

\* the world, the room and the running update, which no key event touches
physics == <<bodies, worldBounds, pc, locals, erased, flight, ops, gravity>>
beyondInput == <<physics, consoleVars, gameVars>>

keyCallbackImpl(key, action) ==
    /\ keyStates' = IF action = "GLFW_PRESS" THEN MapPut(keyStates, key, TRUE)
                    ELSE IF action = "GLFW_RELEASE" THEN MapPut(keyStates, key, FALSE)
                    ELSE keyStates
    /\ UNCHANGED <<previousKeyStates, keysPressed, keysReleased, beyondInput>>

\* InputHandler::update: previousKeyStates is overwritten before the loop
\* compares keyStates with it
InputHandlerUpdate ==
    /\ previousKeyStates' = keyStates
    /\ keysPressed' = {key \in DOMAIN keyStates :
                           keyStates[key] /\ ~MapGet(previousKeyStates', key)}
    /\ keysReleased' = {key \in DOMAIN keyStates :
                            ~keyStates[key] /\ MapGet(previousKeyStates', key)}
    /\ UNCHANGED <<keyStates, beyondInput>>

\* the same call made by the loop of Game::Run, which goes on to Game::update
polled ==
    /\ previousKeyStates' = keyStates
    /\ keysPressed' = {key \in DOMAIN keyStates :
                           keyStates[key] /\ ~MapGet(previousKeyStates', key)}
    /\ keysReleased' = {key \in DOMAIN keyStates :
                            ~keyStates[key] /\ MapGet(previousKeyStates', key)}
    /\ UNCHANGED keyStates

InputNext ==
    \/ \E key \in Keys, action \in KeyActions : keyCallbackImpl(key, action)
    \/ InputHandlerUpdate

InputSpec == Init /\ [][InputNext]_vars

\* ------------------------------------------------- Game: console commands
\* the camera of Game::Initialize; no movement key is held and the mouse rests
cameraPosition == Vector3(0, 3000, 8000)
cameraFront == Vector3(0, 0, -1000)

\* what randomGenerator yields for one ball of summonBalls: the two position
\* offsets with the height between them, and the velocity
SummonDraws ==
    <<[offset |-> Vector3(1000, 3000, -1000), velocity |-> Vector3(500, 0, -500)],
      [offset |-> Vector3(-4000, 6000, 3000), velocity |-> Vector3(-2000, 0, 1000)],
      [offset |-> Vector3(0, 2000, -2000), velocity |-> Vector3(0, 0, 0)]>>

\* the ball of one iteration of the loop of summonBalls, made from draw k
summonedBall(k) ==
    LET draw == SummonDraws[((k - 1) % Len(SummonDraws)) + 1]
    IN [Ball(Vector3(cameraPosition.x + draw.offset.x, draw.offset.y,
                     cameraPosition.z + draw.offset.z))
            EXCEPT !.velocity = draw.velocity]

\* Game::summonBalls(count) on the bodies bs; the generator stands at draw first
summonBalls(bs, count, first) == bs \o [i \in 1..count |-> summonedBall(first + i - 1)]

\* the callback of "summon": [out, bodies]
summonCommand(out, bs, args, first) ==
    IF args = <<>>
    THEN [out |-> addOutput(out, <<"Usage: summon <number>">>), bodies |-> bs]
    ELSE LET count == stoi(args[1])
         IN IF count.thrown
            THEN [out |-> addOutput(out, <<"Invalid number: ">> \o args[1]),
                  bodies |-> bs]
            ELSE IF count.value <= 0
            THEN [out |-> addOutput(out, <<"Number must be positive">>), bodies |-> bs]
            ELSE IF count.value > 100
            THEN [out |-> addOutput(out, <<"Maximum 100 balls at once">>),
                  bodies |-> bs]
            ELSE [out |-> addOutput(out, <<"Summoned ">> \o to_string(count.value)
                                             \o <<" balls">>),
                  bodies |-> summonBalls(bs, count.value, first)]

\* the callback of "physics_info"
physicsInfo(out, bs, held) ==
    addOutputs(out,
        <<<<"Physics Info:">>,
          <<"  Balls: ">> \o to_string(Cardinality({i \in 1..Len(bs) : bs[i].kind = "Ball"})),
          <<"  Held ball: ", IF held # 0 THEN "Yes" ELSE "No">>>>)

\* ------------------------------------------------------------- Console
\* Console::executeCommand(commandLine) with the callbacks that are
\* registered: what it leaves in history, outputMessages, the world and
\* Game::heldBall
Executed(commandLine, first) ==
    LET same == [history |-> history, out |-> outputMessages, bodies |-> bodies,
                 heldBall |-> heldBall]
        echoed == addOutput(outputMessages, <<"> ">> \o commandLine)
        tokens == parseCommand(commandLine)
        command == tokens[1]
        args == Tail(tokens)
        known == [same EXCEPT !.history = recorded(history, commandLine),
                              !.out = echoed]
    IN IF commandLine = <<>> THEN same
       ELSE IF tokens = <<>> THEN known
       ELSE IF command \notin commands
       THEN [known EXCEPT !.out =
                addOutputs(echoed, <<<<"Unknown command: ">> \o command,
                                     <<"Type 'help' for available commands">>>>)]
       ELSE IF command = help THEN [known EXCEPT !.out = showHelp(echoed)]
       ELSE IF command = clearOutputName THEN [known EXCEPT !.out = clearOutput(echoed)]
       ELSE IF command = historyName
       THEN [known EXCEPT !.out = showHistory(echoed, known.history)]
       ELSE IF command = summon
       THEN LET r == summonCommand(echoed, bodies, args, first)
            IN [known EXCEPT !.out = r.out, !.bodies = r.bodies]
       ELSE IF command = clear_balls
       THEN [known EXCEPT !.out = addOutput(echoed, <<"Cleared all balls">>),
                          !.bodies = <<>>, !.heldBall = 0]
       ELSE [known EXCEPT !.out = physicsInfo(echoed, bodies, heldBall)]

\* where randomGenerator may stand when commandLine runs: the generator is
\* read by the callback of "summon" only
Generator(commandLine) ==
    IF parseCommand(commandLine) # <<>> /\ parseCommand(commandLine)[1] = summon
       /\ summon \in commands
    THEN 1..Len(SummonDraws) ELSE {1}

\* what no operation of the console touches but through a callback
beyondConsole == <<worldBounds, pc, locals, erased, flight, ops, gravity, inputVars,
                   isPaused, commands>>

executeCommand(commandLine) ==
    /\ pc = "idle"
    /\ \E first \in Generator(commandLine) :
          LET e == Executed(commandLine, first)
          IN /\ history' = e.history /\ outputMessages' = e.out
             /\ bodies' = e.bodies /\ heldBall' = e.heldBall
    /\ UNCHANGED <<currentInput, isVisible, isActive, historyIndex, beyondConsole>>

\* executeCommand, counted
ConsoleCommand(commandLine, budget) ==
    /\ pc = "idle" /\ ops < budget
    /\ \E first \in Generator(commandLine) :
          LET e == Executed(commandLine, first)
          IN /\ history' = e.history /\ outputMessages' = e.out
             /\ bodies' = e.bodies /\ heldBall' = e.heldBall
    /\ ops' = ops + 1
    /\ UNCHANGED <<currentInput, isVisible, isActive, historyIndex, worldBounds, pc,
                   locals, erased, flight, gravity, inputVars, isPaused, commands>>

\* the characters processChar tells apart by their codes
Backspace == {"BS", "DEL"}
Enter == {"CR", "LF"}
Unprintable == {"BEL"}

processChar(c) ==
    /\ pc = "idle"
    /\ IF ~isActive \/ c \in Unprintable
       THEN UNCHANGED <<history, outputMessages, bodies, heldBall, currentInput,
                        historyIndex>>
       ELSE IF c \in Backspace
       THEN /\ currentInput' = IF currentInput # <<>>
                               THEN SubSeq(currentInput, 1, Len(currentInput) - 1)
                               ELSE currentInput
            /\ UNCHANGED <<history, outputMessages, bodies, heldBall, historyIndex>>
       ELSE IF c \in Enter
       THEN /\ \E first \in Generator(currentInput) :
                  LET e == Executed(currentInput, first)
                  IN /\ history' = e.history /\ outputMessages' = e.out
                     /\ bodies' = e.bodies /\ heldBall' = e.heldBall
            /\ currentInput' = <<>>
            /\ historyIndex' = -1
       ELSE /\ Len(currentInput) < MaxInput
            /\ currentInput' = Append(currentInput, c)
            /\ historyIndex' = -1
            /\ UNCHANGED <<history, outputMessages, bodies, heldBall>>
    /\ UNCHANGED <<isVisible, isActive, beyondConsole>>

\* Console::navigateHistory(direction): [historyIndex, currentInput]
navigateHistory(direction) ==
    LET up == IF historyIndex < 0 THEN Len(history) - 1
              ELSE IF historyIndex > 0 THEN historyIndex - 1 ELSE historyIndex
        down == IF historyIndex >= 0 THEN historyIndex + 1 ELSE historyIndex
        index == IF direction < 0 THEN up ELSE down
    IN IF history = <<>>
       THEN [historyIndex |-> historyIndex, currentInput |-> currentInput]
       ELSE IF direction >= 0 /\ historyIndex >= 0 /\ index >= Len(history)
       THEN [historyIndex |-> -1, currentInput |-> <<>>]
       ELSE [historyIndex |-> index,
             currentInput |-> IF index >= 0 /\ index < Len(history)
                              THEN history[index + 1] ELSE currentInput]

processSpecialKey(key) ==
    /\ pc = "idle"
    /\ IF ~isActive \/ key \notin {264, 265}
       THEN UNCHANGED <<historyIndex, currentInput>>
       ELSE LET n == navigateHistory(IF key = 265 THEN -1 ELSE 1)
            IN historyIndex' = n.historyIndex /\ currentInput' = n.currentInput
    /\ UNCHANGED <<history, outputMessages, bodies, heldBall, isVisible, isActive,
                   beyondConsole>>

setVisible(visible) ==
    /\ pc = "idle"
    /\ isVisible' = visible
    /\ isActive' = visible
    /\ IF visible THEN currentInput' = <<>> /\ historyIndex' = -1
       ELSE UNCHANGED <<currentInput, historyIndex>>
    /\ UNCHANGED <<history, outputMessages, bodies, heldBall, beyondConsole>>

toggle == setVisible(~isVisible)

\* the console alone, as its constructor leaves it
CommandLines == {<<>>, <<" ">>, <<"a">>, help, clearOutputName, historyName}
Chars == {"a", "BS", "LF", "BEL"}
SpecialKeys == {264, 265, 257}

ConsoleNext ==
    \/ \E commandLine \in CommandLines : executeCommand(commandLine)
    \/ \E c \in Chars : processChar(c)
    \/ \E key \in SpecialKeys : processSpecialKey(key)
    \/ toggle
    \/ \E visible \in BOOLEAN : setVisible(visible)

ConsoleSpec == Init /\ [][ConsoleNext]_vars

\* ---------------------------------------------------------------- Game
\* the game after Game::Initialize: the console commands are registered and
\* setupScene has summoned five balls
GameInit ==
    /\ \E first \in 1..Len(SummonDraws) : bodies = summonBalls(<<>>, 5, first)
    /\ worldBounds = DefaultBounds
    /\ pc = "idle"
    /\ deltaTime = 0 /\ remainingTime = 0 /\ substeps = 0 /\ currentStep = 0
    /\ ci = 0 /\ cj = 0
    /\ pre = <<>>
    /\ simulated = 0
    /\ outcome = NoPair
    /\ impact = <<>>
    /\ erased = NotErased
    /\ flight = NoFlight
    /\ ops = 0
    /\ gravity = Vector3(0, -9810, 0)
    /\ keyStates = <<>> /\ previousKeyStates = <<>>
    /\ keysPressed = {} /\ keysReleased = {}
    /\ history = <<>> /\ currentInput = <<>>
    /\ isVisible = FALSE /\ isActive = FALSE
    /\ historyIndex = -1
    /\ commands = BuiltinCommands \cup GameCommands
    /\ outputMessages = addOutputs(<<>>, <<<<"Physics Engine Console">>,
                                          <<"Type 'help' for available commands">>,
                                          <<"Press ~ to toggle console">>>>)
    /\ heldBall = 0 /\ isPaused = FALSE

pickupRange == 3000
throwForce == 15000

\* PhysicsWorld::handleCollisions from the pair (i, j) on, run to its end
RECURSIVE handleCollisionsFrom(_, _, _, _)
handleCollisionsFrom(bs, i, j, randomOffset) ==
    IF i >= Len(bs) THEN bs
    ELSE IF j > Len(bs) THEN handleCollisionsFrom(bs, i + 1, i + 2, randomOffset)
    ELSE handleCollisionsFrom(
             IF isCollidingWith(bs[i], bs[j])
             THEN LET r == resolveCollision(bs[i], bs[j], randomOffset)
                  IN [bs EXCEPT ![i] = r[1], ![j] = r[2]]
             ELSE bs,
             i, j + 1, randomOffset)

\* PhysicsWorld::update from the loop test on, run to its end
RECURSIVE updateFrom(_, _, _, _, _)
updateFrom(bs, wb, remaining, n, randomOffset) ==
    IF LoopPc(remaining, n) = "done" THEN bs
    ELSE LET step == Min(remaining, timeStep)
             moved == [k \in 1..Len(bs) |-> update(bs[k], step)]
         IN updateFrom(handleWorldBoundaries(
                           handleCollisionsFrom(moved, 1, 2, randomOffset), wb),
                       wb, remaining - step, n + 1, randomOffset)

\* Game::findNearestBall: the place of the ball, 0 for nullptr
findNearestBall(bs) ==
    LET distance(i) == magnitude(VSub(bs[i].position, cameraPosition))
        near == {i \in 1..Len(bs) :
                    /\ bs[i].kind = "Ball" /\ ~bs[i].isHeld /\ ~bs[i].posNaN
                    /\ distance(i) < pickupRange}
    IN IF near = {} THEN 0
       ELSE CHOOSE i \in near :
                \A j \in near : distance(i) < distance(j)
                                   \/ (distance(i) = distance(j) /\ i <= j)

\* Game::updatePlayer, given the keys wasKeyPressed answers true for:
\* [bodies, heldBall]
updatePlayer(bs, held, pressedKeys) ==
    LET same == [bodies |-> bs, heldBall |-> held]
        nearest == findNearestBall(bs)
        afterE ==
            IF "E" \notin pressedKeys THEN same
            ELSE IF held # 0
            THEN [bodies |-> [bs EXCEPT ![held] = setHeld(bs[held], FALSE)],
                  heldBall |-> 0]
            ELSE IF nearest # 0
            THEN [bodies |-> [bs EXCEPT ![nearest] = setHeld(bs[nearest], TRUE)],
                  heldBall |-> nearest]
            ELSE same
    IN IF "F" \in pressedKeys /\ afterE.heldBall # 0
       THEN [bodies |-> [afterE.bodies EXCEPT ![afterE.heldBall] =
                            throwBall(afterE.bodies[afterE.heldBall],
                                      VMul(cameraFront, throwForce))],
             heldBall |-> 0]
       ELSE afterE

\* Game::update(dt) once the game is not paused: [bodies, heldBall]
gameUpdate(bs, held, pressedKeys, wb, dt, randomOffset) ==
    LET player == updatePlayer(bs, held, pressedKeys)
        world == updateFrom(player.bodies, wb, dt, 0, randomOffset)
    IN [bodies |-> IF player.heldBall # 0
                   THEN [world EXCEPT ![player.heldBall].position =
                            VAdd(cameraPosition, VMul(cameraFront, 2000))]
                   ELSE world,
        heldBall |-> player.heldBall]

\* the keys and events the player gives, and the frame times of Game::Run
GameKeys == {"E", "F", "P"}
GameKeyActions == {"GLFW_PRESS", "GLFW_RELEASE"}
GameDeltaTimes == {10}
GameLines == {summon \o <<" ", "1">>, clear_balls}

\* glfwPollEvents delivers one key event: InputHandler::keyCallbackImpl and
\* the key callback of Game::setupInputCallbacks
GameKey(key, action) ==
    /\ pc = "idle" /\ ops < MaxOps
    /\ keyStates' = IF action = "GLFW_PRESS" THEN MapPut(keyStates, key, TRUE)
                    ELSE IF action = "GLFW_RELEASE" THEN MapPut(keyStates, key, FALSE)
                    ELSE keyStates
    /\ isPaused' = IF action = "GLFW_PRESS" /\ key = "P" THEN ~isPaused ELSE isPaused
    /\ ops' = ops + 1
    /\ UNCHANGED <<previousKeyStates, keysPressed, keysReleased, bodies, worldBounds,
                   pc, locals, erased, flight, gravity, consoleVars, heldBall>>

\* one round of the loop of Game::Run: inputHandler->update(); update(deltaTime)
GameFrame(dt) ==
    /\ pc = "idle" /\ ops < MaxOps
    /\ polled
    /\ IF isPaused THEN UNCHANGED <<bodies, heldBall>>
       ELSE \E randomOffset \in RandomOffsets :
               LET g == gameUpdate(bodies, heldBall, keysPressed', worldBounds, dt,
                                   randomOffset)
               IN bodies' = g.bodies /\ heldBall' = g.heldBall
    /\ ops' = ops + 1
    /\ UNCHANGED <<worldBounds, pc, locals, erased, flight, gravity, consoleVars,
                   isPaused>>

GameNext ==
    \/ \E key \in GameKeys, action \in GameKeyActions : GameKey(key, action)
    \/ \E commandLine \in GameLines : ConsoleCommand(commandLine, MaxOps)
    \/ \E dt \in GameDeltaTimes : GameFrame(dt)

GameSpec == GameInit /\ [][GameNext]_vars

\* the arguments given to "summon", and the lines made of them
SummonArguments ==
    {<<"2">>, <<"0">>, <<"-", "1">>, <<"1", "0", "0">>, <<"1", "0", "1">>,
     <<"a", "b", "c">>, <<"2", "a", "b", "c">>,
     <<"9", "9", "9", "9", "9", "9", "9", "9", "9", "9", "9">>}
SummonLines == {summon} \cup {summon \o <<" ">> \o arg : arg \in SummonArguments}

SummonNext == \E commandLine \in SummonLines : ConsoleCommand(commandLine, MaxCommands)

SummonSpec == GameInit /\ [][SummonNext]_vars

\* ------------------------------------------- the collection of bodies
\* Bodies are constructed with any mass and radius, added, removed by
\* pointer and cleared; no update runs in between.
Masses == {0, 1000}
Radii == {-500, 500}
ConstructedBodies ==
    {PhysicsBody(p, m, r) : p \in BodyPositions, m \in Masses, r \in Radii}

\* std::remove_if from place k on, for the predicate ptr.get() == body.  A
\* pointer h is the place of the body it points to, and 0 if it points to no
\* body of the collection (a removed body, a body of another world, nullptr).
RECURSIVE removeIf(_, _, _)
removeIf(bs, h, k) ==
    IF k > Len(bs) THEN <<>>
    ELSE IF k = h THEN removeIf(bs, h, k + 1)
         ELSE <<bs[k]>> \o removeIf(bs, h, k + 1)

\* removal that moves the last body into the place of the removed one
eraseRemoveIf_SwapWithLast(bs, h) ==
    IF h \in 1..Len(bs)
    THEN [j \in 1..(Len(bs) - 1) |-> IF j = h THEN bs[Len(bs)] ELSE bs[j]]
    ELSE bs

\* bodies.erase(std::remove_if(bodies.begin(), bodies.end(), ...), bodies.end())
eraseRemoveIf(bs, h) == removeIf(bs, h, 1)

removeBody(h) ==
    /\ pc = "idle" /\ ops < MaxOps
    /\ bodies' = eraseRemoveIf(bodies, h)
    /\ erased' = [h |-> h, n |-> Len(bodies)]
    /\ ops' = ops + 1
    /\ UNCHANGED <<worldBounds, pc, locals, flight, others>>

clear ==
    /\ pc = "idle" /\ ops < MaxOps
    /\ bodies' = <<>>
    /\ ops' = ops + 1
    /\ UNCHANGED <<worldBounds, pc, locals, erased, flight, others>>

CollectionNext ==
    \/ \E p \in Positions : createBall(p)
    \/ \E body \in ConstructedBodies : addBody(body)
    \/ \E h \in 0..Len(bodies) : removeBody(h)
    \/ clear

CollectionSpec == Init /\ [][CollectionNext]_vars

\* ------------------------------------------- a single ball, dropped
\* One ball is created at rest above the floor of the default room and the
\* world is updated frame after frame, every frame with the same deltaTime.
DropHeights == {1000, 2000, 5000}
DropDeltaTimes == {5, 10, 15}

\* what a caller reading the ball between two frames learns of its flight:
\* apex is the greatest height read since the ball last lay on the floor,
\* last and prev are the apexes of the two flights before, n counts them,
\* dt is the deltaTime of the caller's frames
Observe(f, b) ==
    IF b.position.y <= b.radius
    THEN IF f.apex > b.radius
         THEN [f EXCEPT !.apex = b.radius, !.last = f.apex, !.prev = f.last,
                        !.n = Min(f.n + 1, 2)]
         ELSE f
    ELSE [f EXCEPT !.apex = Max(f.apex, b.position.y)]

DropInit ==
    /\ \E h \in DropHeights, dt \in DropDeltaTimes :
          /\ bodies = <<Ball(Vector3(0, h, 0))>>
          /\ flight = [apex |-> h, last |-> 0, prev |-> 0, n |-> 0, dt |-> dt]
    /\ worldBounds = DefaultBounds
    /\ pc = "idle"
    /\ deltaTime = 0 /\ remainingTime = 0 /\ substeps = 0 /\ currentStep = 0
    /\ ci = 0 /\ cj = 0
    /\ pre = <<>>
    /\ simulated = 0
    /\ outcome = NoPair
    /\ impact = <<>>
    /\ erased = NotErased
    /\ ops = 0
    /\ OthersInit

\* the caller reads the ball, then calls update(flight.dt) for the next frame
DropCall ==
    /\ pc = "idle"
    /\ flight' = Observe(flight, bodies[1])
    /\ deltaTime' = flight.dt /\ remainingTime' = flight.dt /\ substeps' = 0
    /\ pre' = bodies /\ simulated' = 0
    /\ pc' = LoopPc(flight.dt, 0)
    /\ UNCHANGED <<bodies, worldBounds, currentStep, ci, cj, outcome, impact, erased,
                   ops, others>>

DropNext ==
    \/ DropCall
    \/ Integrate
    \/ Boundaries
    \/ UpdateReturn

DropSpec == DropInit /\ [][DropNext]_vars

\* ------------------------------------------------------------ claims
Bodies == 1..Len(bodies)
Kinematics(b) == <<b.velocity, b.acceleration, b.force>>
AtRest(b) == Kinematics(b) = <<ZERO, ZERO, ZERO>>
SamePlace(b, c) == b.position = c.position /\ b.posNaN = c.posNaN

\* the room is at least one diameter of b wide on each axis
RoomFits(b) ==
    /\ worldBounds[2] - worldBounds[1] >= 2 * b.radius
    /\ worldBounds[4] - worldBounds[3] >= 2 * b.radius
    /\ worldBounds[6] - worldBounds[5] >= 2 * b.radius

\* min + radius <= position <= max - radius on the three axes
Contained(b) ==
    /\ ~b.posNaN
    /\ worldBounds[1] + b.radius <= b.position.x
    /\ b.position.x <= worldBounds[2] - b.radius
    /\ worldBounds[3] + b.radius <= b.position.y
    /\ b.position.y <= worldBounds[4] - b.radius
    /\ worldBounds[5] + b.radius <= b.position.z
    /\ b.position.z <= worldBounds[6] - b.radius

\* C1 as stated: after any update call every body, static, held and inactive
\* ones included, lies within the room shrunk by its radius.
C1_AllBodiesContained ==
    pc = "done" => \A i \in Bodies : RoomFits(bodies[i]) => Contained(bodies[i])

\* C1 amended: after an update call with deltaTime > 0 every non-static body
\* whose position is a number lies within the room shrunk by its radius,
\* provided the room is at least one diameter wide on each axis.
C1_NonStaticContained ==
    pc = "done" /\ deltaTime > 0 =>
        \A i \in Bodies :
            ~bodies[i].isStatic /\ ~bodies[i].posNaN /\ RoomFits(bodies[i])
                => Contained(bodies[i])

\* a body that entered update outside the room and left it contained
C1_Witness ==
    /\ pc = "done" /\ deltaTime > 0
    /\ \E i \in Bodies :
          /\ ~bodies[i].isStatic /\ RoomFits(bodies[i])
          /\ pre[i].position.x > worldBounds[2] - pre[i].radius
          /\ pre[i].position.z < worldBounds[5] + pre[i].radius
          /\ Contained(bodies[i])

\* C2: a ball that is held when update is called has the same position when
\* update returns, whatever deltaTime, the other bodies and the room are.
C2_HeldBallFrozen ==
    pc = "done" => \A i \in Bodies : pre[i].isHeld => SamePlace(bodies[i], pre[i])

\* the steps C3 speaks of: update, applyForce and applyImpulse
C3_Step ==
    \/ pc # "idle"
    \/ \E i \in Bodies, f \in Forces : ApplyForce(i, f)
    \/ \E i \in Bodies, j \in Impulses : ApplyImpulse(i, j)

\* C3: update, applyForce and applyImpulse leave a static body at rest
\* (velocity, acceleration and force ZERO) and where it was.
C3_StaticInvariant ==
    [][C3_Step =>
          \A i \in Bodies :
              bodies[i].isStatic /\ AtRest(bodies[i])
                  => AtRest(bodies'[i]) /\ SamePlace(bodies'[i], bodies[i])]_vars

\* C4: handleCollisions on an overlapping pair of two static bodies changes
\* neither body (no position becomes NaN through a division by zero).
C4_StaticPairSkipped ==
    [][pc = "collide" /\ bodies[ci].isStatic /\ bodies[cj].isStatic
          /\ isCollidingWith(bodies[ci], bodies[cj])
          => bodies' = bodies]_vars

C7_InactiveSkipped ==
    pc = "done" => \A i \in Bodies : ~pre[i].isActive => bodies[i] = pre[i]

\* C8: resolveCollision leaves an overlapping pair whose relative velocity
\* along the contact normal is strictly positive completely unchanged.
C8_SeparatingUntouched ==
    [][pc = "collide" /\ isCollidingWith(bodies[ci], bodies[cj])
          /\ velocityAlongNormal(bodies[ci], bodies[cj]) > 0
          => bodies' = bodies]_vars

\* an overlapping pair, one body moving away from the other, has been handled
C8_Witness ==
    /\ outcome.what = "separating"
    /\ \E i \in Bodies : bodies[i].velocity.x # 0

\* a.velocity * a.mass + b.velocity * b.mass
Momentum(a, b) ==
    Vector3(a.velocity.x * a.mass + b.velocity.x * b.mass,
            a.velocity.y * a.mass + b.velocity.y * b.mass,
            a.velocity.z * a.mass + b.velocity.z * b.mass)

\* C9: resolving an approaching overlapping pair of non-static bodies of equal
\* mass leaves a.velocity*a.mass + b.velocity*b.mass as it was: the random
\* perturbation adds +offset*mass to one body and -offset*mass to the other.
C9_MomentumConserved ==
    [][pc = "collide" /\ isCollidingWith(bodies[ci], bodies[cj])
          /\ velocityAlongNormal(bodies[ci], bodies[cj]) <= 0
          /\ ~bodies[ci].isStatic /\ ~bodies[cj].isStatic
          /\ bodies[ci].mass = bodies[cj].mass
          => Momentum(bodies'[ci], bodies'[cj]) = Momentum(bodies[ci], bodies[cj])]_vars

\* an approaching pair of equal mass has been resolved with a non-zero impulse
C9_Witness ==
    /\ outcome.what = "resolved"
    /\ ~bodies[outcome.i].isStatic /\ ~bodies[outcome.j].isStatic
    /\ bodies[outcome.i].mass = bodies[outcome.j].mass
    /\ bodies[outcome.i].velocity.x < -100
    /\ bodies[outcome.j].velocity.x > 100

\* ceil(a / b) for b > 0
Ceil(a, b) == -((-a) \div b)

\* where update stands in its substep: smaller is later
PhaseRank ==
    CASE pc = "integrate" -> 4 + Len(bodies) * Len(bodies)
      [] pc = "collide" -> 3 + (Len(bodies) - ci) * Len(bodies) + (Len(bodies) - cj)
      [] pc = "boundaries" -> 2
      [] pc = "done" -> 1
      [] OTHER -> 0
Rank == (maxSubsteps - substeps) * (5 + Len(bodies) * Len(bodies)) + PhaseRank

\* C10: update, once called, returns, every step inside it lowering a
\* non-negative rank;
\* each step is min(remaining, timeStep); and when update returns it has run
\* min(maxSubsteps, ceil(deltaTime / timeStep)) substeps (none for
\* deltaTime <= 0) and simulated min(deltaTime, maxSubsteps * timeStep).
C10_Substeps ==
    /\ (pc # "idle") ~> (pc = "idle")
    /\ [](substeps <= maxSubsteps /\ Rank >= 0)
    /\ [][pc # "idle" /\ pc' # "idle" => Rank' < Rank]_vars
    /\ [](pc \in {"collide", "boundaries"} =>
             currentStep = Min(deltaTime - (simulated - currentStep), timeStep))
    /\ [](pc = "done" =>
             /\ substeps = IF deltaTime > 0
                           THEN Min(maxSubsteps, Ceil(deltaTime, timeStep)) ELSE 0
             /\ simulated = IF deltaTime > 0
                            THEN Min(deltaTime, maxSubsteps * timeStep) ELSE 0)

\* an update that dropped elapsed time: four full steps, time left over
C10_Witness ==
    /\ pc = "done" /\ deltaTime > maxSubsteps * timeStep
    /\ substeps = maxSubsteps /\ simulated < deltaTime

\* C11: inside update every substep integrates all bodies, then tests every
\* pair (i, j), i < j, in order, then resolves the boundaries; nothing is
\* integrated between the first pair and the end of the substep, the
\* boundary step is the last to change a body, and only it ends the substep.
C11_SubstepOrder ==
    [][/\ pc = "integrate" =>
             /\ bodies' = [i \in Bodies |-> update(bodies[i], currentStep')]
             /\ substeps' = substeps
             /\ IF Len(bodies) >= 2 THEN pc' = "collide" /\ ci' = 1 /\ cj' = 2
                                    ELSE pc' = "boundaries"
       /\ pc = "collide" =>
             /\ \A i \in Bodies : i \notin {ci, cj} => bodies'[i] = bodies[i]
             /\ substeps' = substeps
             /\ IF ci = Len(bodies) - 1 /\ cj = Len(bodies)
                THEN pc' = "boundaries"
                ELSE /\ pc' = "collide" /\ ci' < cj' /\ cj' <= Len(bodies)
                     /\ \/ ci' = ci /\ cj' = cj + 1
                        \/ cj = Len(bodies) /\ ci' = ci + 1 /\ cj' = ci' + 1
       /\ pc = "boundaries" =>
             /\ bodies' = handleWorldBoundaries(bodies, worldBounds)
             /\ substeps' = substeps + 1
             /\ pc' \in {"integrate", "done"}
       /\ pc = "done" => bodies' = bodies /\ pc' = "idle"]_vars

\* the second substep of an update has resolved a pair and comes to the
\* boundary step
C11_Witness ==
    /\ pc = "boundaries" /\ substeps >= 1
    /\ outcome.what = "resolved"
    /\ Len(bodies) >= 2

\* a free ball: a Ball that is not held, not static and active
Free(b) == b.kind = "Ball" /\ ~b.isHeld /\ ~b.isStatic /\ b.isActive

\* position.y is a number below radius
BelowRadius(b) == ~b.posNaN /\ b.position.y < b.radius

\* C12 as stated: in a room with minY = 0, a free ball that integration took
\* below its radius with velocity.y < 0 ends the substep with position.y =
\* radius and velocity.y = -restitution * (velocity.y at impact); and after
\* any update no free ball is below its radius.
C12_FloorBounce ==
    /\ [][pc = "boundaries" /\ worldBounds[3] = 0 =>
              \A i \in Bodies :
                  Free(bodies[i]) /\ impact[i].hit =>
                      /\ bodies'[i].position.y = bodies[i].radius
                      /\ bodies'[i].velocity.y =
                             Mul(-impact[i].vy, bodies[i].restitution)]_vars
    /\ [](pc = "done" /\ worldBounds[3] = 0 =>
              \A i \in Bodies : Free(bodies[i]) => ~BelowRadius(bodies[i]))

\* C12 amended: the same for a ball that handleCollisions did not resolve in
\* a pair during that substep, and, for the second part, after an update
\* with deltaTime > 0.
C12_FloorBounceAlone ==
    /\ [][pc = "boundaries" /\ worldBounds[3] = 0 =>
              \A i \in Bodies :
                  Free(bodies[i]) /\ impact[i].hit /\ ~impact[i].resolved =>
                      /\ bodies'[i].position.y = bodies[i].radius
                      /\ bodies'[i].velocity.y =
                             Mul(-impact[i].vy, bodies[i].restitution)]_vars
    /\ [](pc = "done" /\ deltaTime > 0 /\ worldBounds[3] = 0 =>
              \A i \in Bodies : Free(bodies[i]) => ~BelowRadius(bodies[i]))

\* a substep has ended in which a free ball, in no resolved pair, hit the floor
\* falling and left it rising
C12_Witness ==
    /\ pc \in {"integrate", "done"} /\ substeps >= 1 /\ worldBounds[3] = 0
    /\ \E i \in Bodies :
          /\ Free(bodies[i]) /\ impact[i].hit /\ ~impact[i].resolved
          /\ impact[i].vy < -100
          /\ bodies[i].position.y = bodies[i].radius
          /\ bodies[i].velocity.y > 100

\* C13: for a single ball dropped from rest and stepped with update, the apex
\* of each bounce is strictly lower than the apex of the bounce before (the
\* drop height for the first bounce), and the ball is never read higher than
\* the apex of the bounce before.
C13_ApexDecreasing ==
    /\ flight.n >= 2 => flight.last < flight.prev
    /\ flight.n >= 1 => flight.apex <= flight.last

\* the ball has bounced off the floor and come down again, lower than before
C13_Witness ==
    /\ flight.n = 2
    /\ flight.last > bodies[1].radius + 100
    /\ flight.last < flight.prev

\* C14: no body with mass <= 0 or radius <= 0 is ever in the collection of
\* the world: its construction or its addition is rejected.
C14_InvalidRejected ==
    \A i \in Bodies : bodies[i].mass > 0 /\ bodies[i].radius > 0

\* C15: removeBody with a pointer to no body of the collection leaves the
\* collection as it is; with a pointer to the body at place h it leaves one
\* body less: the bodies before h and the bodies after h, in their order.
C15_RemoveBody ==
    [][\A h \in 0..Len(bodies) :
          removeBody(h) =>
              IF h = 0 THEN bodies' = bodies
              ELSE /\ Len(bodies') = Len(bodies) - 1
                   /\ \A j \in 1..Len(bodies') :
                         bodies'[j] = IF j < h THEN bodies[j] ELSE bodies[j + 1]]_vars

\* a body that was not the last of three has been removed and two different
\* bodies are left
C15_Witness ==
    /\ erased.n = 3 /\ erased.h \in 1..2
    /\ Len(bodies) = 2 /\ bodies[1] # bodies[2]

\* C16: resolveCollision on an overlapping pair with coincident centres, not
\* both static, divides by no zero (the normal is the zero vector without a
\* division, the combined inverse mass and the masses divided by are not
\* zero) and leaves no NaN in either body.
C16_CoincidentCentres ==
    [][pc = "collide" /\ isCollidingWith(bodies[ci], bodies[cj])
          /\ bodies[ci].position = bodies[cj].position
          /\ ~(bodies[ci].isStatic /\ bodies[cj].isStatic)
          => /\ magnitude(VSub(bodies[ci].position, bodies[cj].position)) = 0
             /\ normalOf(bodies[ci], bodies[cj]) = ZERO
             /\ invMassSum(bodies[ci], bodies[cj]) # 0
             /\ \A k \in {ci, cj} : ~bodies[k].isStatic => bodies[k].mass # 0
             /\ ~bodies'[ci].posNaN /\ ~bodies'[cj].posNaN]_vars

\* a pair with coincident centres, not both static, has been resolved
C16_Witness ==
    /\ outcome.what = "resolved"
    /\ bodies[outcome.i].position = bodies[outcome.j].position
    /\ ~bodies[outcome.i].posNaN /\ ~bodies[outcome.j].posNaN
    /\ ~(bodies[outcome.i].isStatic /\ bodies[outcome.j].isStatic)

\* C17: throwBall(v) on a held ball clears isHeld, sets velocity to
\* (v.x, v.y + 2.0, v.z) and leaves position (and every other field) as it
\* was; on a ball that is not held it changes no field.
C17_ThrowBall ==
    [][\A i \in Bodies, v \in ThrowVelocities :
          ThrowBall(i, v) =>
              /\ \A k \in Bodies : k # i => bodies'[k] = bodies[k]
              /\ IF bodies[i].isHeld
                 THEN /\ ~bodies'[i].isHeld
                      /\ bodies'[i].velocity.x = v.x
                      /\ bodies'[i].velocity.y = v.y + 2 * Scale
                      /\ bodies'[i].velocity.z = v.z
                      /\ bodies'[i].position = bodies[i].position
                      /\ [bodies'[i] EXCEPT !.velocity = ZERO, !.isHeld = TRUE]
                             = [bodies[i] EXCEPT !.velocity = ZERO]
                 ELSE bodies'[i] = bodies[i]]_vars

\* a ball that was picked up where it was created has been thrown
C17_Witness ==
    /\ pc = "idle"
    /\ \E i \in Bodies, v \in ThrowVelocities :
          /\ bodies[i].kind = "Ball" /\ ~bodies[i].isHeld
          /\ bodies[i].velocity = Vector3(v.x, v.y + 2 * Scale, v.z)
          /\ bodies[i].position \in Positions

\* a body whose update integrates it: active, not static, not a held ball
Integrated(b) == b.isActive /\ ~b.isStatic /\ ~b.isHeld

gravityConstant == Vector3(0, -9810, 0)

\* the acceleration update computes in a substep for body i: the force
\* applied before the call counts in the first substep only
SubstepAcceleration(i) ==
    VAdd(VDiv(IF substeps = 0 THEN pre[i].force ELSE ZERO, bodies[i].mass),
         gravityConstant)

\* C18 as stated: after an update that ran at least one substep every
\* non-static body has force ZERO; and a force applied before the update
\* enters the acceleration of the first substep only.
C18_ForceCleared ==
    /\ [](pc = "done" /\ substeps >= 1 =>
              \A i \in Bodies : ~bodies[i].isStatic => bodies[i].force = ZERO)
    /\ [][pc = "integrate" =>
              \A i \in Bodies :
                  Integrated(bodies[i]) =>
                      bodies'[i].acceleration = SubstepAcceleration(i)]_vars

\* C18 amended: the same for every body that is active, not static and not a
\* held ball; the force of an inactive body or a held ball is kept.
C18_ForceClearedIntegrated ==
    /\ [](pc = "done" /\ substeps >= 1 =>
              \A i \in Bodies : Integrated(bodies[i]) => bodies[i].force = ZERO)
    /\ [][pc = "integrate" =>
              \A i \in Bodies :
                  Integrated(bodies[i]) =>
                      /\ bodies'[i].force = ZERO
                      /\ bodies'[i].acceleration = SubstepAcceleration(i)]_vars

\* an update of two substeps or more has used up the force applied before it
C18_Witness ==
    /\ pc = "done" /\ substeps >= 2
    /\ \E i \in Bodies :
          /\ Integrated(bodies[i]) /\ pre[i].force # ZERO
          /\ bodies[i].force = ZERO
          /\ bodies[i].acceleration = gravityConstant
          /\ bodies[i].velocity.z > 0

\* the reflection of handleWorldBoundaries on one axis of body b
XFace(b) ==
    AxisBoundary(b.position.x, b.velocity.x, b.radius, worldBounds[1], worldBounds[2],
                 b.restitution)
YFace(b) ==
    AxisBoundary(b.position.y, b.velocity.y, b.radius, worldBounds[3], worldBounds[4],
                 b.restitution)
ZFace(b) ==
    AxisBoundary(b.position.z, b.velocity.z, b.radius, worldBounds[5], worldBounds[6],
                 b.restitution)

\* C19: in a substep in which a non-static body bounces off one of the six
\* faces of the room, a Ball landing on the floor being such a bounce, and
\* ends with position.y <= minY + radius + 0.1, handleWorldBoundaries scales
\* velocity.x and velocity.z by (1 - friction) once; in any other substep it
\* leaves them unscaled.
C19_FloorFriction ==
    [][pc = "boundaries" =>
          \A i \in Bodies :
              ~bodies[i].isStatic /\ ~bodies[i].posNaN =>
                  LET b == bodies[i]
                      collided == \/ XFace(b).hit \/ YFace(b).hit \/ ZFace(b).hit
                                  \/ impact[i].hit
                      onFloor == bodies'[i].position.y <= worldBounds[3] + b.radius + 100
                      slip == IF collided /\ onFloor THEN Scale - b.friction ELSE Scale
                  IN /\ bodies'[i].velocity.x = Mul(XFace(b).v, slip)
                     /\ bodies'[i].velocity.z = Mul(ZFace(b).v, slip)]_vars

\* force / mass + (0, -9.81, 0)
C20_Acceleration(b) ==
    Vector3(Quot(b.force.x, b.mass), Quot(b.force.y, b.mass) - 9810,
            Quot(b.force.z, b.mass))

\* (velocity + acceleration * dt) * 0.999
C20_Velocity(b, dt) ==
    Vector3(Mul(b.velocity.x + MulT(C20_Acceleration(b).x, dt), 999),
            Mul(b.velocity.y + MulT(C20_Acceleration(b).y, dt), 999),
            Mul(b.velocity.z + MulT(C20_Acceleration(b).z, dt), 999))

\* position + (the new, damped velocity) * dt
C20_Position(b, dt) ==
    Vector3(b.position.x + MulT(C20_Velocity(b, dt).x, dt),
            b.position.y + MulT(C20_Velocity(b, dt).y, dt),
            b.position.z + MulT(C20_Velocity(b, dt).z, dt))

\* C20: update(dt) of an active, non-static body sets acceleration to
\* force/mass + (0, -9.81, 0), velocity to (velocity + acceleration*dt) *
\* 0.999 and position to position + (that velocity)*dt; for a ball that is
\* not held the position is the same and velocity is multiplied by 0.95
\* after position was advanced (the floor clamp then acts on the y
\* components only).
C20_Integration ==
    [][pc = "integrate" =>
          \A i \in Bodies :
              Integrated(bodies[i]) /\ ~bodies[i].posNaN =>
                  LET b == bodies[i]
                      dt == currentStep'
                      landed == C20_Position(b, dt).y < b.radius
                  IN /\ bodies'[i].acceleration = C20_Acceleration(b)
                     /\ IF b.kind = "Ball"
                        THEN /\ bodies'[i].position.x = C20_Position(b, dt).x
                             /\ bodies'[i].position.z = C20_Position(b, dt).z
                             /\ bodies'[i].velocity.x = Mul(C20_Velocity(b, dt).x, 950)
                             /\ bodies'[i].velocity.z = Mul(C20_Velocity(b, dt).z, 950)
                             /\ ~landed =>
                                    /\ bodies'[i].position.y = C20_Position(b, dt).y
                                    /\ bodies'[i].velocity.y =
                                           Mul(C20_Velocity(b, dt).y, 950)
                        ELSE /\ bodies'[i].position = C20_Position(b, dt)
                             /\ bodies'[i].velocity = C20_Velocity(b, dt)]_vars

\* the first substep has integrated a falling body and a falling ball, neither
\* of them on the floor
C20_Witness ==
    /\ pc \in {"collide", "boundaries"} /\ substeps = 0
    /\ \E i, j \in Bodies :
          /\ bodies[i].kind = "PhysicsBody" /\ bodies[j].kind = "Ball"
          /\ Integrated(bodies[i]) /\ Integrated(bodies[j])
          /\ pre[i].position.y > bodies[i].position.y
          /\ pre[j].position.y > bodies[j].position.y
          /\ bodies[j].position.y > bodies[j].radius
          /\ bodies[i].velocity.y < bodies[j].velocity.y

\* C21: setGravity changes what getGravity returns and nothing else, and
\* whatever it was given, every integration adds (0, -9.81, 0) to
\* force / mass: acceleration, velocity and position of an integrated body
\* are those of C20, in which the gravity of the world does not occur.
C21_GravityUnused ==
    /\ [][\A g \in Gravities :
              setGravity(g) =>
                  /\ getGravity' = g
                  /\ UNCHANGED <<bodies, worldBounds, pc, locals>>]_vars
    /\ [][pc = "integrate" =>
              \A i \in Bodies :
                  Integrated(bodies[i]) /\ ~bodies[i].posNaN =>
                      LET b == bodies[i]
                          dt == currentStep'
                      IN /\ bodies'[i].acceleration = C20_Acceleration(b)
                         /\ bodies'[i].position.x = C20_Position(b, dt).x
                         /\ bodies'[i].position.z = C20_Position(b, dt).z
                         /\ bodies'[i].position.y =
                                IF b.kind = "Ball" /\ C20_Position(b, dt).y < b.radius
                                THEN b.radius ELSE C20_Position(b, dt).y]_vars
    /\ [][pc # "integrate" => \A i \in Bodies :
              bodies'[i].acceleration = bodies[i].acceleration]_vars

\* a body has fallen under (0, -9.81, 0) in a world whose gravity was set to
\* another vector
C21_Witness ==
    /\ getGravity # gravityConstant
    /\ pc \in {"collide", "boundaries"}
    /\ \E i \in Bodies :
          /\ Integrated(bodies[i])
          /\ bodies[i].acceleration = gravityConstant
          /\ bodies[i].position.y < pre[i].position.y

\* C22: when update runs with key k down and k was not down at the update
\* before (a press arrived in between), wasKeyPressed(k) is true after it;
\* at an update that finds k as the update before left it, wasKeyPressed(k)
\* and wasKeyReleased(k) are false after it; and when update runs with k up
\* and k was down at the update before, wasKeyReleased(k) is true after it.
C22_KeyEdges ==
    [][InputHandlerUpdate =>
          \A k \in Keys :
              /\ wasKeyPressed(k)' =
                     (isKeyPressed(k) /\ ~MapGet(previousKeyStates, k))
              /\ wasKeyReleased(k)' =
                     (~isKeyPressed(k) /\ MapGet(previousKeyStates, k))]_vars

\* C24: in a substep handleCollisions tests the pairs (i, j), i < j, one after
\* the other in increasing order, (1, 2) first and (n-1, n) last, each once;
\* a pair is handed to resolveCollision iff both bodies are active and the
\* distance of their centres, as the earlier resolutions of the substep left
\* them, is strictly less than the sum of their radii; a pair that is not
\* handed over changes nothing, and no pair changes a third body.
C24_Overlapping(a, b) ==
    /\ ~a.posNaN /\ ~b.posNaN
    /\ magnitude(VSub(a.position, b.position)) < a.radius + b.radius

C24_NextPair(i, j, n) == IF j < n THEN <<i, j + 1>> ELSE <<i + 1, i + 2>>

C24_PairOrder ==
    /\ [][Integrate =>
             IF Len(bodies) >= 2 THEN pc' = "collide" /\ <<ci', cj'>> = <<1, 2>>
             ELSE pc' = "boundaries"]_vars
    /\ [][CollidePair =>
             /\ 1 <= ci /\ ci < cj /\ cj <= Len(bodies)
             /\ outcome'.i = ci /\ outcome'.j = cj
             /\ (outcome'.what # "apart") =
                    (/\ bodies[ci].isActive /\ bodies[cj].isActive
                     /\ C24_Overlapping(bodies[ci], bodies[cj]))
             /\ (outcome'.what = "apart" => bodies' = bodies)
             /\ \A k \in Bodies \ {ci, cj} : bodies'[k] = bodies[k]
             /\ IF <<ci, cj>> = <<Len(bodies) - 1, Len(bodies)>>
                THEN pc' = "boundaries"
                ELSE pc' = "collide"
                     /\ <<ci', cj'>> = C24_NextPair(ci, cj, Len(bodies))]_vars

\* the pair (1, 2) was resolved and changed body 1; the pair (1, 3) is tested next
C24_Witness ==
    /\ pc = "collide" /\ Len(bodies) >= 3
    /\ outcome.what = "resolved" /\ outcome.i = ci /\ cj = outcome.j + 1
    /\ bodies[ci].velocity # update(pre[ci], currentStep).velocity

\* C25: when resolveCollision resolves a pair that penetrates by p > 0 and is
\* not static on both sides, a moves along +normal and b along -normal, a
\* static body stays, the two moves are in the ratio of the inverse masses and
\* add up to 0.8 * max(p - 0.01, 0) (to the rounding of the number model: two
\* units and three for each unit of inverse mass), and
\* afterwards the centres are no further apart than the radii sum.
C25_MoveOf(i) == VSub(bodies'[i].position, bodies[i].position)

C25_Axis == VSub(bodies[ci].position, bodies[cj].position)

C25_Resolved ==
    /\ CollidePair /\ outcome'.what = "resolved"
    /\ penetrationDepth(bodies[ci], bodies[cj]) > 0
    /\ ~(bodies[ci].isStatic /\ bodies[cj].isStatic)

C25_Moves ==
    LET a == bodies[ci]
        b == bodies[cj]
        moveA == magnitude(C25_MoveOf(ci))
        moveB == magnitude(C25_MoveOf(cj))
        wanted == Mul(800, Max(penetrationDepth(a, b) - 10, 0))
    IN /\ dot(C25_MoveOf(ci), C25_Axis) >= 0
       /\ dot(C25_MoveOf(cj), C25_Axis) <= 0
       /\ a.isStatic => moveA = 0
       /\ b.isStatic => moveB = 0
       /\ Abs(moveA + moveB - wanted) * Scale <= 3 * invMassSum(a, b) + 2 * Scale
       /\ Abs(moveA * getInverseMass(b) - moveB * getInverseMass(a))
              <= 3 * invMassSum(a, b)
       /\ magnitude(VSub(bodies'[ci].position, bodies'[cj].position))
              <= a.radius + b.radius

C25_Correction == [][C25_Resolved => C25_Moves]_vars

\* the same for the pairs whose centres do not coincide
C25_CorrectionApart == [][C25_Resolved /\ magnitude(C25_Axis) > 0 => C25_Moves]_vars

\* C29: when handleCollisions is about to resolve an overlapping pair of two
\* non-static bodies that is not separating, the impulses of resolveCollision
\* (its random ball-ball offset taken as zero) leave the relative velocity
\* along the contact normal at -min(a.restitution, b.restitution) times its
\* value before (to four units of rounding), which is no more than the speed
\* of approach.
C29_Before == velocityAlongNormal(bodies[ci], bodies[cj])

C29_After ==
    LET r == resolveCollision(bodies[ci], bodies[cj], ZERO)
    IN dot(VSub(r[1].velocity, r[2].velocity), normalOf(bodies[ci], bodies[cj]))

C29_Restitution ==
    (/\ pc = "collide"
     /\ isCollidingWith(bodies[ci], bodies[cj])
     /\ ~bodies[ci].isStatic /\ ~bodies[cj].isStatic
     /\ C29_Before <= 0)
        => /\ Abs(C29_After
                    + Mul(Min(bodies[ci].restitution, bodies[cj].restitution),
                          C29_Before)) <= 4
           /\ C29_After <= 4 - C29_Before

\* C30: a ball whose velocity.y Ball::update has reflected at the floor does
\* not have its velocity.y changed by the floor branch of
\* handleWorldBoundaries in the same substep, wherever the floor of the room is
\* and whatever the restitution of the ball.
C30_AtWorldFloor(i) ==
    /\ ~bodies[i].posNaN
    /\ bodies[i].position.y - bodies[i].radius < worldBounds[3]

C30_ReflectedOnce ==
    [][Boundaries =>
          \A i \in Bodies :
              impact[i].hit /\ C30_AtWorldFloor(i)
                  => bodies'[i].velocity.y = bodies[i].velocity.y]_vars

\* the same for a ball that took part in no resolved collision in the substep
C30_ReflectedOnceAlone ==
    [][Boundaries =>
          \A i \in Bodies :
              impact[i].hit /\ ~impact[i].resolved /\ C30_AtWorldFloor(i)
                  => bodies'[i].velocity.y = bodies[i].velocity.y]_vars

\* Ball::update has reflected a falling ball, no collision touched it, and
\* handleWorldBoundaries is about to lift it onto the raised floor of the room
C30_Witness ==
    /\ pc = "boundaries"
    /\ \E i \in Bodies :
          /\ impact[i].hit /\ impact[i].vy < 0 /\ ~impact[i].resolved
          /\ C30_AtWorldFloor(i)
          /\ bodies[i].restitution > 0
          /\ bodies[i].velocity.y > 0

\* C27: whatever operations the console has served, history holds at most
\* maxHistorySize entries and no two neighbours in it are equal,
\* outputMessages holds at most maxOutputMessages entries, historyIndex is -1
\* or the place of an entry of history, and isActive equals isVisible; and
\* while the console is inactive processChar and processSpecialKey change
\* nothing.
C27_ConsoleInvariants ==
    /\ Len(history) <= maxHistorySize
    /\ \A i \in 1..(Len(history) - 1) : history[i] # history[i + 1]
    /\ Len(outputMessages) <= maxOutputMessages
    /\ historyIndex = -1 \/ (0 <= historyIndex /\ historyIndex < Len(history))
    /\ isActive = isVisible

C27_InactiveIgnores ==
    [][(~isActive /\ ((\E c \in Chars : processChar(c))
                        \/ (\E key \in SpecialKeys : processSpecialKey(key))))
           => UNCHANGED vars]_vars

C27_Console == []C27_ConsoleInvariants /\ C27_InactiveIgnores

\* both vectors are full; the line "a" that the Up key fetched from history
\* has since been dropped from its front, with historyIndex still set
C27_Witness ==
    /\ Len(history) = maxHistorySize
    /\ Len(outputMessages) = maxOutputMessages
    /\ isActive
    /\ historyIndex = Len(history) - 1
    /\ currentInput = <<"a">>
    /\ \A i \in 1..Len(history) : history[i] # <<"a">>

\* C23: the command "summon <n>" appends n balls to the world and leaves the
\* bodies that were there as they were when its argument is a number n with
\* 1 <= n <= 100; when the argument is missing, is not a number or is a
\* number outside 1..100, it leaves the world as it was and puts a message
\* after the echo of the line.
C23_IsNumber(arg) ==
    LET digits == IF arg # <<>> /\ arg[1] \in {"+", "-"} THEN Tail(arg) ELSE arg
    IN digits # <<>> /\ \A i \in 1..Len(digits) : IsDigit(digits[i])

\* the value of a sequence of digits, 101 standing for every value above 100
RECURSIVE C23_Value(_, _)
C23_Value(digits, value) ==
    IF digits = <<>> THEN value
    ELSE C23_Value(Tail(digits), Min(101, value * 10 + DigitValue(Head(digits))))

C23_Number(arg) ==
    IF arg[1] = "-" THEN -C23_Value(Tail(arg), 0)
    ELSE IF arg[1] = "+" THEN C23_Value(Tail(arg), 0) ELSE C23_Value(arg, 0)

C23_SummonStep(commandLine) ==
    LET args == Tail(parseCommand(commandLine))
        n == C23_Number(args[1])
    IN IF args # <<>> /\ C23_IsNumber(args[1]) /\ 1 <= n /\ n <= 100
       THEN /\ Len(bodies') = Len(bodies) + n
            /\ SubSeq(bodies', 1, Len(bodies)) = bodies
            /\ \A i \in (Len(bodies) + 1)..Len(bodies') : bodies'[i].kind = "Ball"
       ELSE /\ bodies' = bodies
            /\ outputMessages'[Len(outputMessages')] # <<"> ">> \o commandLine

C23_Summon ==
    [][\A commandLine \in SummonLines :
          ConsoleCommand(commandLine, MaxCommands) => C23_SummonStep(commandLine)]_vars

\* the same for the arguments that do not start with a number and go on
\* with something else
C23_SummonNumbers ==
    [][\A commandLine \in SummonLines :
          (/\ ConsoleCommand(commandLine, MaxCommands)
           /\ Tail(parseCommand(commandLine)) # <<>>
                 => \/ C23_IsNumber(parseCommand(commandLine)[2])
                    \/ stoi(parseCommand(commandLine)[2]).thrown)
              => C23_SummonStep(commandLine)]_vars

\* C26: in a frame of the running game that finds the E key down which the
\* frame before did not find down: a held ball is dropped (isHeld false,
\* heldBall null); with no ball held, the ball that is not held, is nearer to
\* the camera than pickupRange and is nearest among those is picked up
\* (isHeld true, heldBall on it); and with no ball in range nothing is held.
C26_Distance(i) == magnitude(VSub(bodies[i].position, cameraPosition))

C26_InRange ==
    {i \in Bodies : ~bodies[i].isHeld /\ ~bodies[i].posNaN
                    /\ C26_Distance(i) < pickupRange}

C26_EPressed == isKeyPressed("E") /\ ~MapGet(previousKeyStates, "E")

C26_UpdatePlayer ==
    LET p == updatePlayer(bodies, heldBall, {"E"})
    IN IF heldBall # 0
       THEN p.heldBall = 0 /\ ~p.bodies[heldBall].isHeld
       ELSE IF C26_InRange = {}
       THEN p.heldBall = 0 /\ p.bodies = bodies
       ELSE /\ p.heldBall \in C26_InRange
            /\ p.bodies[p.heldBall].isHeld
            /\ \A i \in C26_InRange :
                  C26_Distance(p.heldBall) <= C26_Distance(i)

\* C28: between the frames and the console commands of the game at most one
\* ball of the world is held, heldBall is null exactly when none is and
\* otherwise is the place of the held ball among the bodies that exist, and
\* "clear_balls" leaves an empty world with heldBall null.
C28_Held == {i \in Bodies : bodies[i].isHeld}

C28_HeldBallState ==
    /\ Cardinality(C28_Held) <= 1
    /\ (heldBall # 0) = (C28_Held # {})
    /\ heldBall # 0 => heldBall \in Bodies /\ bodies[heldBall].isHeld

====
